---- MODULE Spec2Model ----
(***************************************************************************)
(* A model of scripts/cve_watch.py: the fetch / dedupe / notify / persist  *)
(* pipeline of main(), the retry policy of _request_with_retry and the     *)
(* posted-ids store, over a sequence of non-overlapping runs.              *)
(***************************************************************************)
EXTENDS Integers, Sequences, FiniteSets, TLC

(* ------------------------------ bounds -------------------------------- *)
\* number of runs (processes) started one after the other
MaxRuns == 2
\* most queries the watchlist file holds
MaxQueries == 2
\* most entries of one API response
MaxEntries == 1
\* most entries in all the responses given to _fetch_cves applied on its own
MaxFetched == 3
\* longest summary given to _tag_item applied on its own
MaxSummary == 2
\* most entries of a metric group given to _extract_cvss applied on its own
MaxMetricEntries == 2

(* ------------------------- program constants -------------------------- *)
\* the attempts of one request
MAX_RETRIES_4 == 3 + 1
MAX_RETRIES == 3

\* the statuses _request_with_retry retries on
TransientStatuses == {429, 500, 502, 503, 504}

\* the id _normalize_item gives a record without one; as a string it sorts
\* after every "CVE-..." id, so it is the largest id of the model
UNKNOWN == 9

(* ------------------------------ inputs -------------------------------- *)
\* the statuses the API answers with in the model
Statuses == {200, 404, 429, 503}

\* the body of a response with status 200: JSON text, or text that is not
\* JSON ("<html>")
Bodies == {"json", "notjson"}

\* one call of requests.get: it raises RequestException (exc) or it returns a
\* response with a status and a body
Outcomes ==
    {[exc |-> TRUE, status |-> 0, body |-> "json"]}
    \cup {[exc |-> FALSE, status |-> s, body |-> "json"] : s \in Statuses}
    \cup {[exc |-> FALSE, status |-> 200, body |-> b] : b \in Bodies}

NoOutcome == [exc |-> FALSE, status |-> 0, body |-> "json"]

\* Strings are sequences of digits, compared as Python compares strings;
\* <<>> is the empty (or absent) string. Ids are numbers, 0 an absent id.
\* The description of a cve is absent (""), holds the keyword of the tag
\* rule of the watchlist ("keyword"), or has the value null ("null").
RawCves ==
    { [present |-> TRUE,  id |-> 1, published |-> <<2>>, lastModified |-> <<>>,
       description |-> ""],
      [present |-> TRUE,  id |-> 2, published |-> <<>>,  lastModified |-> <<1>>,
       description |-> "keyword"],
      [present |-> TRUE,  id |-> 0, published |-> <<>>,  lastModified |-> <<>>,
       description |-> ""],
      [present |-> TRUE,  id |-> 1, published |-> <<2>>, lastModified |-> <<>>,
       description |-> "null"],
      [present |-> FALSE, id |-> 0, published |-> <<>>,  lastModified |-> <<>>,
       description |-> ""] }

RECURSIVE SeqsUpTo(_, _)
SeqsUpTo(S, n) ==
    IF n = 0 THEN {<<>>}
    ELSE LET shorter == SeqsUpTo(S, n - 1)
         IN  shorter \cup {Append(s, x) : s \in {t \in shorter : Len(t) = n - 1}, x \in S}

\* the "vulnerabilities" list of a successful response
Responses == SeqsUpTo(RawCves, MaxEntries)

\* what response.json() gives _fetch_cves: the JSON list [], or a JSON
\* object with its "vulnerabilities"
Payloads ==
    {[shape |-> "list", vulnerabilities |-> <<>>]}
    \cup {[shape |-> "object", vulnerabilities |-> r] : r \in Responses}

\* no posted-ids file
NoStore ==
    [exists |-> FALSE, utf8 |-> FALSE, parsable |-> FALSE, shape |-> "object",
     cve_ids |-> <<>>]

\* the posted-ids file before the first run: absent, bytes that are not
\* UTF-8 text, text that is not JSON, the JSON object {}, the JSON list [],
\* or the JSON object {"cve_ids": null}
InitialStores ==
    { NoStore,
      [NoStore EXCEPT !.exists = TRUE],
      [NoStore EXCEPT !.exists = TRUE, !.utf8 = TRUE],
      [NoStore EXCEPT !.exists = TRUE, !.utf8 = TRUE, !.parsable = TRUE],
      [NoStore EXCEPT !.exists = TRUE, !.utf8 = TRUE, !.parsable = TRUE, !.shape = "list"],
      [NoStore EXCEPT !.exists = TRUE, !.utf8 = TRUE, !.parsable = TRUE, !.shape = "idsnull"] }

\* the tag_rules of the watchlist: null, or a mapping with one rule whose
\* key YAML reads as a string ("rce") or as an integer ("2024")
TagRules1 ==
    { [null |-> FALSE, key |-> "rce"],
      [null |-> TRUE,  key |-> "rce"],
      [null |-> FALSE, key |-> "2024"] }

\* the keys that are integers
IntKeys == {"2024"}

\* HOURS_BACK: "24", "abc", "99999999999999"
HoursBack == {"int", "notint", "huge"}

\* POSTED_PATH as its components: posted/posted.json (the default),
\* posted.json
DefaultPath == <<"posted", "posted.json">>
PostedPaths == {DefaultPath, <<"posted.json">>}

(* ----------------------------- helpers -------------------------------- *)
Range(s) == {s[i] : i \in 1..Len(s)}

\* a < b for Python strings
RECURSIVE LexLess(_, _)
LexLess(a, b) ==
    IF b = <<>> THEN FALSE
    ELSE IF a = <<>> THEN TRUE
    ELSE IF Head(a) # Head(b) THEN Head(a) < Head(b)
    ELSE LexLess(Tail(a), Tail(b))

\* x or y, for strings
Or(x, y) == IF x # <<>> THEN x ELSE y

\* _tag_item on the summary of a cve, with the one rule of tag_rules
TagsOf(cve, tag_rules) ==
    IF cve.description = "keyword" THEN <<tag_rules.key>> ELSE <<>>

\* _normalize_item ends by AttributeError: _extract_summary calls strip on
\* the value None (line 98), _tag_item calls items on tag_rules None (111)
NormalizeRaises(cve, tag_rules) == cve.description = "null" \/ tag_rules.null

\* _normalize_item, the fields the pipeline orders, dedupes and formats by
Normalize(cve, tag_rules) ==
    [cve_id    |-> IF cve.id # 0 THEN cve.id ELSE UNKNOWN,
     published |-> Or(cve.published, Or(cve.lastModified, <<>>)),
     tags      |-> TagsOf(cve, tag_rules)]

\* items.setdefault(item.cve_id, item)
DictPut_keepfirst(dict, item) ==
    IF \E i \in 1..Len(dict) : dict[i].cve_id = item.cve_id
    THEN dict
    ELSE Append(dict, item)

\* items[item.cve_id] = item on a dict kept as the sequence of its values in
\* insertion order: a known key keeps its place and takes the new value
DictPut(dict, item) ==
    IF \E i \in 1..Len(dict) : dict[i].cve_id = item.cve_id
    THEN [i \in 1..Len(dict) |->
            IF dict[i].cve_id = item.cve_id THEN item ELSE dict[i]]
    ELSE Append(dict, item)

\* the loop over data["vulnerabilities"] of _fetch_cves
RECURSIVE MergeEntries(_, _, _)
MergeEntries(dict, entries, tag_rules) ==
    IF entries = <<>> THEN dict
    ELSE LET cve == Head(entries)
         IN  IF ~cve.present
             THEN MergeEntries(dict, Tail(entries), tag_rules)
             ELSE MergeEntries(DictPut(dict, Normalize(cve, tag_rules)),
                               Tail(entries), tag_rules)

\* data.get("vulnerabilities", []) raises AttributeError on a list (line
\* 158), or the loop ends by the exception of _normalize_item on an entry
MergeRaises(data, tag_rules) ==
    \/ data.shape = "list"
    \/ \E i \in 1..Len(data.vulnerabilities) :
          /\ data.vulnerabilities[i].present
          /\ NormalizeRaises(data.vulnerabilities[i], tag_rules)

\* sorted(..., key=published, reverse=True): stable, descending
RECURSIVE InsertDesc(_, _)
InsertDesc(sorted, x) ==
    IF sorted = <<>> THEN <<x>>
    ELSE IF LexLess(Head(sorted).published, x.published)
         THEN <<x>> \o sorted
         ELSE <<Head(sorted)>> \o InsertDesc(Tail(sorted), x)

RECURSIVE SortItems(_)
SortItems(dict) ==
    IF dict = <<>> THEN <<>>
    ELSE InsertDesc(SortItems(SubSeq(dict, 1, Len(dict) - 1)), dict[Len(dict)])

\* sorted(set(cve_ids))
RECURSIVE SortedIds(_)
SortedIds(S) ==
    IF S = {} THEN <<>>
    ELSE LET m == CHOOSE x \in S : \A y \in S : x <= y
         IN  <<m>> \o SortedIds(S \ {m})

\* the exception _load_posted ends by, "" when it returns: the except
\* clause names json.JSONDecodeError only, and json.load on bytes that are
\* not UTF-8 raises UnicodeDecodeError, data.get on a list AttributeError
\* (line 176), set(None) TypeError (line 176)
LoadError(file) ==
    IF ~file.exists THEN ""
    ELSE IF ~file.utf8 THEN "UnicodeDecodeError"
    ELSE IF ~file.parsable THEN ""
    ELSE IF file.shape = "list" THEN "AttributeError"
    ELSE IF file.shape = "idsnull" THEN "TypeError"
    ELSE ""

LoadRaises(file) == LoadError(file) # ""

\* _load_posted: no file, or a file that is not JSON, is the empty set
LoadPosted(file) ==
    IF ~file.exists THEN {}
    ELSE IF ~file.parsable THEN {}
    ELSE Range(file.cve_ids)

\* os.path.dirname(path)
DirName(path) == SubSeq(path, 1, Len(path) - 1)

\* os.makedirs(os.path.dirname(path), exist_ok=True) raises FileNotFoundError
\* for the empty name, before the file is opened
SaveRaises(path) == DirName(path) = <<>>

\* what _save_posted leaves in the file
SavePosted(path, file, cve_ids) ==
    IF SaveRaises(path) THEN file
    ELSE [exists |-> TRUE, utf8 |-> TRUE, parsable |-> TRUE, shape |-> "object",
          cve_ids |-> SortedIds(cve_ids)]

\* ", ".join(item.tags) in _format_message raises TypeError for a tag that
\* is not a string
FormatRaises(item) == \E i \in 1..Len(item.tags) : item.tags[i] \in IntKeys

\* the ids a posted-ids file holds
StoreIds(file) ==
    IF file.exists /\ file.utf8 /\ file.parsable /\ file.shape = "object"
    THEN Range(file.cve_ids) ELSE {}

\* response.raise_for_status() raises HTTPError for a 4xx or 5xx status
RaisesForStatus(status) == 400 <= status /\ status < 600

\* time.sleep(2**attempt)
Backoff_linear(attempt) == attempt
Backoff(attempt) == 2 ^ attempt

\* to_post = [item for item in items if item.cve_id not in posted_ids]
RECURSIVE ToPost(_, _)
ToPost(its, posted) ==
    IF its = <<>> THEN <<>>
    ELSE IF Head(its).cve_id \in posted
         THEN ToPost(Tail(its), posted)
         ELSE <<Head(its)>> \o ToPost(Tail(its), posted)

\* posted_now = set(posted_ids)
InitPostedNow_empty(posted) == {}
InitPostedNow(posted) == posted

\* the body of the delivery loop: posted_now.add in the else branch only
PostedAfter(now, id, ok) == IF ok THEN now \cup {id} ELSE now

\* the delivery loop ends by break on a failure, or after the last item
LoopEnds(ok, i, n) == ~ok \/ i = n

\* len(posted_now) - len(posted_ids)
PostedCount(now, before) == Cardinality(now) - Cardinality(before)

\* if not webhook_url: return 1
WebhookMissing_never(w) == FALSE
WebhookMissing(w) == ~w

\* if not queries: return 1
NoQueries(n) == n = 0

\* the loops of _fetch_cves are over once the CRITICAL request of the last
\* query has been merged
FetchDone_first(q, s, n) == s = 2
FetchDone(q, s, n) == s = 2 /\ q >= n

\* the ids an item can have
AllIds == {IF cve.id # 0 THEN cve.id ELSE UNKNOWN : cve \in {r \in RawCves : r.present}}

\* if not to_post: return 0
NothingToPost_never(tp) == FALSE
NothingToPost(tp) == tp = <<>>

\* main catches RuntimeError from _fetch_cves, and nothing else
Caught(kind) == kind = "RuntimeError"

\* the exit status of the process: raise SystemExit(main()), and 1 from the
\* interpreter when main ends by an exception
ExitCode(res) == IF res = "return 0" THEN 0 ELSE 1

\* the watchlist file before main has read it
NoWatchlist == [ok |-> FALSE, nq |-> 0, tag_rules |-> [null |-> FALSE, key |-> "rce"]]

\* what the watchlist file can be: unreadable, or a mapping with nq queries
\* and tag_rules; the tag_rules that make the run fail come with one query
WatchlistFiles ==
    {NoWatchlist}
    \cup {[NoWatchlist EXCEPT !.ok = TRUE, !.nq = n] : n \in 0..MaxQueries}
    \cup {[ok |-> TRUE, nq |-> 1, tag_rules |-> r] : r \in TagRules1}

\* a watchlist with one query and the tag rule of the model
OneQuery == [NoWatchlist EXCEPT !.ok = TRUE, !.nq = 1]

\* what a process is started with: the default HOURS_BACK and POSTED_PATH
\* with any webhook setting and watchlist file; the other values of
\* HOURS_BACK and of POSTED_PATH come with the webhook URL and OneQuery
Environments ==
    {[webhook |-> w, wlFile |-> f, hoursBack |-> "int", postedPath |-> DefaultPath] :
        w \in BOOLEAN, f \in WatchlistFiles}
    \cup {[webhook |-> TRUE, wlFile |-> OneQuery, hoursBack |-> h, postedPath |-> p] :
            h \in HoursBack, p \in PostedPaths}

(* ------------------------------ state --------------------------------- *)
VARIABLES
    runs,        \* processes started so far
    files,       \* the file at each path POSTED_PATH can name
    store0,      \* the posted-ids file when the running process started
    webhook,     \* SLACK_WEBHOOK_URL is set
    wlFile,      \* the watchlist file
    hoursBack,   \* HOURS_BACK
    postedPath,  \* POSTED_PATH, bound when the module is loaded
    pc,          \* where main is
    wlReads,     \* calls of _load_watchlist in this run
    queries,     \* len(queries) once the watchlist is loaded
    qi, sev,     \* the (query, severity) pair being requested
    attempt,     \* the loop variable of _request_with_retry
    calls,       \* calls of requests.get of the current request
    lastOutcome, \* what the last call of requests.get did
    sleeps,      \* the time.sleep arguments of the current request
    dict,        \* items of _fetch_cves, in insertion order
    items,       \* what _fetch_cves returned
    fetched,     \* _fetch_cves has returned in this run
    posted_ids, to_post, posted_now,
    idx,         \* position of the delivery loop in to_post
    attempts,    \* the calls of _post_to_slack of this run: id and outcome
    failAt,      \* index in to_post of the delivery that failed, 0 if none
    saveCount,   \* calls of _save_posted in this run, the raising ones too
    savedIds,    \* the set the last _save_posted was given
    stdout, stderr,
    result,      \* "running", "return 0", "return 1" or "raised"
    raised,      \* the exception main ended by
    fetchError,  \* the type of the exception that left _request_with_retry
    prev,        \* the previous run: what it fetched and how delivery went
    nReq,        \* calls of _request_with_retry in this run
    nReqOk,      \* those that returned
    loadCount,   \* calls of _load_posted in this run
    deliveries,  \* the ids delivered by the runs before this one that had its
                 \* POSTED_PATH, back to the last run that had another
    fnIn, fnOut  \* argument and result of a function applied on its own

envVars    == <<webhook, wlFile, hoursBack, postedPath>>
reqVars    == <<qi, sev, attempt, calls, lastOutcome, sleeps>>
fetchVars  == <<dict, items, fetched>>
notifyVars == <<posted_ids, to_post, posted_now, idx, attempts, failAt>>
saveVars   == <<files, saveCount, savedIds>>
outVars    == <<stdout, stderr, result, raised, fetchError>>
histVars   == <<runs, store0, prev>>
countVars  == <<nReq, nReqOk, loadCount, deliveries>>
fnVars     == <<fnIn, fnOut>>

vars == <<envVars, pc, wlReads, queries, reqVars, fetchVars, notifyVars,
          saveVars, outVars, histVars, countVars, fnVars>>

\* the new items of a run that were not delivered: the one whose delivery
\* failed and those after it
Pending(tp, k) == IF k = 0 THEN <<>> ELSE SubSeq(tp, k, Len(tp))

NoPrev == [fetched |-> FALSE, items |-> <<>>, pending |-> <<>>, path |-> DefaultPath]

\* the posted-ids file of the running process: the file at POSTED_PATH
store == files[postedPath]

\* no process has run, whatever the watchlist file is
Quiet ==
    /\ runs = 0
    /\ postedPath = DefaultPath
    /\ store0 = store
    /\ webhook = FALSE
    /\ hoursBack = "int"
    /\ pc = "idle"
    /\ wlReads = 0
    /\ qi = 0 /\ sev = 0 /\ attempt = 0 /\ calls = 0
    /\ lastOutcome = NoOutcome
    /\ sleeps = <<>>
    /\ dict = <<>> /\ items = <<>> /\ fetched = FALSE
    /\ posted_ids = {} /\ to_post = <<>> /\ posted_now = {}
    /\ idx = 0 /\ attempts = <<>> /\ failAt = 0
    /\ saveCount = 0 /\ savedIds = {}
    /\ stdout = <<>> /\ stderr = <<>>
    /\ result = "return 0" /\ raised = "" /\ fetchError = ""
    /\ prev = NoPrev
    /\ nReq = 0 /\ nReqOk = 0 /\ loadCount = 0
    /\ deliveries = {}

\* no process has run
Idle ==
    /\ Quiet
    /\ wlFile = NoWatchlist
    /\ queries = 0

\* no posted-ids file at any path
NoFiles == [p \in PostedPaths |-> NoStore]

\* the file at the default path is one of InitialStores; there is no file
\* posted.json in the working directory
Init ==
    /\ \E f \in InitialStores : files = [NoFiles EXCEPT ![DefaultPath] = f]
    /\ Idle
    /\ fnIn = <<>> /\ fnOut = <<>>

(* ----------------------------- actions -------------------------------- *)
\* A process is started (runs do not overlap): its environment and the
\* watchlist file are what the operator left there.
StartRun(env) ==
    /\ pc \in {"idle", "exit"}
    /\ runs < MaxRuns
    /\ runs' = runs + 1
    /\ webhook' = env.webhook
    /\ wlFile' = env.wlFile
    /\ hoursBack' = env.hoursBack
    /\ postedPath' = env.postedPath
    /\ store0' = files[env.postedPath]
    /\ prev' = IF pc = "idle" THEN NoPrev
               ELSE [fetched |-> fetched, items |-> items,
                     pending |-> Pending(to_post, failAt), path |-> postedPath]
    /\ pc' = "load_config"
    /\ wlReads' = 0
    /\ queries' = 0
    /\ qi' = 0 /\ sev' = 0 /\ attempt' = 0 /\ calls' = 0
    /\ lastOutcome' = NoOutcome
    /\ sleeps' = <<>>
    /\ dict' = <<>> /\ items' = <<>> /\ fetched' = FALSE
    /\ posted_ids' = {} /\ to_post' = <<>> /\ posted_now' = {}
    /\ idx' = 0 /\ attempts' = <<>> /\ failAt' = 0
    /\ saveCount' = 0 /\ savedIds' = {}
    /\ stdout' = <<>> /\ stderr' = <<>>
    /\ result' = "running" /\ raised' = "" /\ fetchError' = ""
    /\ nReq' = 0 /\ nReqOk' = 0 /\ loadCount' = 0
    /\ deliveries' = IF env.postedPath # postedPath THEN {}
                     ELSE deliveries \cup
                          {attempts[i].id : i \in {j \in 1..Len(attempts) : attempts[j].ok}}
    /\ UNCHANGED <<files, fnVars>>

\* main ends by an exception of type kind that nothing catches: the
\* interpreter prints the traceback and the exit status is 1
Crash(kind) ==
    /\ raised' = kind
    /\ result' = "raised"
    /\ stderr' = Append(stderr, "Traceback")
    /\ pc' = "exit"

\* int(os.getenv("HOURS_BACK", "24")) raises ValueError
HoursBackRaises(h) == h = "notint"

\* timedelta(hours=hours_back) raises OverflowError
TimedeltaRaises(h) == h = "huge"

\* main, lines 218-230
LoadConfig ==
    /\ pc = "load_config"
    /\ IF WebhookMissing(webhook)
       THEN /\ stderr' = Append(stderr, "SLACK_WEBHOOK_URL is required.")
            /\ result' = "return 1"
            /\ pc' = "exit"
            /\ UNCHANGED <<wlReads, queries, raised>>
       ELSE /\ wlReads' = wlReads + 1
            /\ IF ~wlFile.ok
               THEN /\ Crash("ConfigError")
                    /\ UNCHANGED queries
               ELSE /\ queries' = wlFile.nq
                    /\ IF NoQueries(wlFile.nq)
                       THEN /\ stderr' = Append(stderr, "watchlist.yml has no queries.")
                            /\ result' = "return 1"
                            /\ pc' = "exit"
                            /\ UNCHANGED raised
                       ELSE IF HoursBackRaises(hoursBack)
                            THEN Crash("ValueError")
                            ELSE /\ pc' = "fetch"
                                 /\ UNCHANGED <<stderr, result, raised>>
    /\ UNCHANGED <<envVars, reqVars, fetchVars, notifyVars, saveVars, stdout, fetchError,
                   histVars, countVars, fnVars>>

\* _fetch_cves, lines 137-151: the time window is computed, the watchlist is
\* loaded again for its tag_rules (gone: the file was removed since main
\* read it), then the first request begins (with no query there is none,
\* and the empty list is returned)
FetchStart(gone) ==
    /\ pc = "fetch"
    /\ dict' = <<>>
    /\ IF TimedeltaRaises(hoursBack)
       THEN /\ Crash("OverflowError")
            /\ UNCHANGED <<wlReads, reqVars, nReq, items, fetched>>
       ELSE /\ wlReads' = wlReads + 1
            /\ IF gone
               THEN /\ Crash("FileNotFoundError")
                    /\ UNCHANGED <<reqVars, nReq, items, fetched>>
               ELSE /\ UNCHANGED <<stderr, result, raised>>
                    /\ IF queries = 0
                       THEN /\ items' = <<>> /\ fetched' = TRUE
                            /\ pc' = "filter"
                            /\ UNCHANGED <<reqVars, nReq>>
                       ELSE /\ qi' = 1 /\ sev' = 1
                            /\ attempt' = 1 /\ calls' = 0 /\ sleeps' = <<>>
                            /\ lastOutcome' = NoOutcome
                            /\ nReq' = nReq + 1
                            /\ pc' = "request"
                            /\ UNCHANGED <<items, fetched>>
    /\ UNCHANGED <<envVars, queries, notifyVars, saveVars, stdout, fetchError, histVars,
                   nReqOk, loadCount, deliveries, fnVars>>

\* the exception _request_with_retry ends by when the final attempt got
\* outcome o: RuntimeError (lines 62 and 75), or the HTTPError of
\* raise_for_status (line 68)
ExhaustedKind(o) ==
    IF o.exc THEN "RuntimeError"
    ELSE IF RaisesForStatus(o.status) THEN "HTTPError"
    ELSE "RuntimeError"

\* response.json() raises JSONDecodeError (line 73)
JsonRaises(o) == o.body = "notjson"

\* An exception of type kind leaves _request_with_retry and _fetch_cves
\* and reaches the try of main, lines 232-236.
FetchFails(kind) ==
    /\ fetchError' = kind
    /\ dict' = <<>>
    /\ pc' = "exit"
    /\ IF Caught(kind)
       THEN /\ stderr' = Append(stderr, "NVD request failed")
            /\ result' = "return 1"
            /\ UNCHANGED raised
       ELSE /\ stderr' = Append(stderr, "Traceback")
            /\ result' = "raised"
            /\ raised' = kind

\* time.sleep(2**attempt); continue
SleepAndRetry ==
    /\ sleeps' = Append(sleeps, Backoff(attempt))
    /\ attempt' = attempt + 1
    /\ UNCHANGED <<pc, dict, stderr, result, raised, fetchError>>

\* one turn of the loop of _request_with_retry, lines 52-75
Attempt(o) ==
    /\ pc = "request"
    /\ calls' = calls + 1
    /\ lastOutcome' = o
    /\ IF o.exc
       THEN IF attempt = MAX_RETRIES
            THEN FetchFails(ExhaustedKind(o)) /\ UNCHANGED <<attempt, sleeps>>
            ELSE SleepAndRetry
       ELSE IF o.status \in TransientStatuses
            THEN IF attempt = MAX_RETRIES
                 THEN IF RaisesForStatus(o.status)
                      THEN FetchFails(ExhaustedKind(o)) /\ UNCHANGED <<attempt, sleeps>>
                      ELSE \* sleep, leave the loop, line 75
                           /\ sleeps' = Append(sleeps, Backoff(attempt))
                           /\ FetchFails(ExhaustedKind(o))
                           /\ UNCHANGED attempt
                 ELSE SleepAndRetry
            ELSE IF RaisesForStatus(o.status)
                 THEN FetchFails("HTTPError") /\ UNCHANGED <<attempt, sleeps>>
                 ELSE IF JsonRaises(o)
                      THEN FetchFails("JSONDecodeError") /\ UNCHANGED <<attempt, sleeps>>
                      ELSE /\ pc' = "merge"
                           /\ UNCHANGED <<attempt, sleeps, dict, stderr, result, raised,
                                          fetchError>>
    /\ nReqOk' = IF pc' = "merge" THEN nReqOk + 1 ELSE nReqOk
    /\ UNCHANGED <<envVars, wlReads, queries, qi, sev, items, fetched, notifyVars,
                   saveVars, stdout, histVars, nReq, loadCount, deliveries, fnVars>>

\* _fetch_cves, lines 158-165: the entries of the data the request returned
\* go into items; then the next pair is requested, or the sorted items are
\* returned (and the locals of _fetch_cves are gone).
Merge(data) ==
    /\ pc = "merge"
    /\ IF MergeRaises(data, wlFile.tag_rules)
       THEN /\ Crash("AttributeError")
            /\ dict' = <<>>
            /\ UNCHANGED <<reqVars, nReq, items, fetched>>
       ELSE /\ UNCHANGED <<stderr, result, raised>>
            /\ IF ~FetchDone(qi, sev, queries)
               THEN /\ IF sev = 1
                       THEN sev' = 2 /\ qi' = qi
                       ELSE sev' = 1 /\ qi' = qi + 1
                    /\ dict' = MergeEntries(dict, data.vulnerabilities, wlFile.tag_rules)
                    /\ nReq' = nReq + 1
                    /\ pc' = "request"
                    /\ UNCHANGED <<items, fetched>>
               ELSE /\ items' = SortItems(MergeEntries(dict, data.vulnerabilities, wlFile.tag_rules))
                    /\ fetched' = TRUE
                    /\ dict' = <<>>
                    /\ qi' = 0 /\ sev' = 0
                    /\ pc' = "filter"
                    /\ UNCHANGED nReq
            /\ attempt' = (IF pc' = "request" THEN 1 ELSE 0)
            /\ calls' = 0 /\ sleeps' = <<>> /\ lastOutcome' = NoOutcome
    /\ UNCHANGED <<envVars, wlReads, queries, notifyVars, saveVars, stdout, fetchError,
                   histVars, nReqOk, loadCount, deliveries, fnVars>>

\* main, lines 238-245
FilterNew ==
    /\ pc = "filter"
    /\ loadCount' = loadCount + 1
    /\ IF LoadRaises(store)
       THEN /\ Crash(LoadError(store))
            /\ UNCHANGED <<posted_ids, to_post, posted_now, idx, stdout>>
       ELSE /\ posted_ids' = LoadPosted(store)
            /\ to_post' = ToPost(items, posted_ids')
            /\ UNCHANGED <<raised, stderr>>
            /\ IF NothingToPost(to_post')
               THEN /\ stdout' = Append(stdout, [msg |-> "No new CVEs to post.", n |-> 0])
                    /\ result' = "return 0"
                    /\ pc' = "exit"
                    /\ UNCHANGED <<posted_now, idx>>
               ELSE /\ posted_now' = InitPostedNow(posted_ids')
                    /\ idx' = 1
                    /\ pc' = IF to_post' = <<>> THEN "persist" ELSE "notify"
                    /\ UNCHANGED <<stdout, result>>
    /\ UNCHANGED <<envVars, wlReads, queries, reqVars, fetchVars, attempts, failAt,
                   saveVars, fetchError, histVars, nReq, nReqOk, deliveries, fnVars>>

\* main, lines 246-253: one turn of the delivery loop. _format_message may
\* raise before anything is sent; ok is whether _post_to_slack returned (it
\* raises RequestException otherwise)
Deliver(ok) ==
    /\ pc = "notify"
    /\ LET item == to_post[idx]
       IN  IF FormatRaises(item)
           THEN /\ Crash("TypeError")
                /\ UNCHANGED <<attempts, posted_now, failAt, idx>>
           ELSE /\ attempts' = Append(attempts, [id |-> item.cve_id, ok |-> ok])
                /\ posted_now' = PostedAfter(posted_now, item.cve_id, ok)
                /\ IF ok
                   THEN UNCHANGED <<stderr, failAt>>
                   ELSE /\ stderr' = Append(stderr, "Slack post failed")
                        /\ failAt' = IF failAt = 0 THEN idx ELSE failAt
                /\ IF LoopEnds(ok, idx, Len(to_post))
                   THEN pc' = "persist" /\ UNCHANGED idx
                   ELSE pc' = "notify" /\ idx' = idx + 1
                /\ UNCHANGED <<result, raised>>
    /\ UNCHANGED <<envVars, wlReads, queries, reqVars, fetchVars, posted_ids, to_post,
                   saveVars, stdout, fetchError, histVars, countVars, fnVars>>

\* main, lines 255-257
Persist ==
    /\ pc = "persist"
    /\ saveCount' = saveCount + 1
    /\ savedIds' = posted_now
    /\ files' = [files EXCEPT ![postedPath] = SavePosted(postedPath, @, posted_now)]
    /\ IF SaveRaises(postedPath)
       THEN /\ Crash("FileNotFoundError")
            /\ UNCHANGED stdout
       ELSE /\ stdout' = Append(stdout, [msg |-> "Posted n CVEs.",
                                         n   |-> PostedCount(posted_now, posted_ids)])
            /\ result' = "return 0"
            /\ pc' = "exit"
            /\ UNCHANGED <<stderr, raised>>
    /\ UNCHANGED <<envVars, wlReads, queries, reqVars, fetchVars, notifyVars,
                   fetchError, histVars, countVars, fnVars>>

Next ==
    \/ \E env \in Environments : StartRun(env)
    \/ LoadConfig
    \/ \E gone \in BOOLEAN : FetchStart(gone)
    \/ \E o \in Outcomes : Attempt(o)
    \/ \E data \in Payloads : Merge(data)
    \/ FilterNew
    \/ \E ok \in BOOLEAN : Deliver(ok)
    \/ Persist

Spec == Init /\ [][Next]_vars

(* ------------------- _fetch_cves applied on its own -------------------- *)
\* cves of the responses: one id with two contents, two ids with the same
\* published string, a cve with neither id nor date
FetchEntries ==
    { [present |-> TRUE, id |-> 1, published |-> <<2>>, lastModified |-> <<>>,
       description |-> ""],
      [present |-> TRUE, id |-> 1, published |-> <<1>>, lastModified |-> <<>>,
       description |-> "keyword"],
      [present |-> TRUE, id |-> 2, published |-> <<>>,  lastModified |-> <<1>>,
       description |-> ""],
      [present |-> TRUE, id |-> 0, published |-> <<>>,  lastModified |-> <<>>,
       description |-> ""] }

\* the tag_rules _fetch_cves reads from the watchlist
FetchTagRules == [null |-> FALSE, key |-> "rce"]

\* the entries of request r in a sequence of (request, cve) pairs
RECURSIVE EntriesOf(_, _)
EntriesOf(t, r) ==
    IF t = <<>> THEN <<>>
    ELSE IF Head(t).req = r
         THEN <<Head(t).cve>> \o EntriesOf(Tail(t), r)
         ELSE EntriesOf(Tail(t), r)

\* sequences of at most k (request, cve) pairs in request order
RECURSIVE InRequestOrder(_, _)
InRequestOrder(P, k) ==
    IF k = 0 THEN {<<>>}
    ELSE LET shorter == InRequestOrder(P, k - 1)
         IN  shorter \cup
             UNION { { Append(t, x) :
                         x \in {y \in P : t = <<>> \/ t[Len(t)].req <= y.req} } :
                     t \in {u \in shorter : Len(u) = k - 1} }

\* the lengths of the queries list _fetch_cves is applied to
FetchQueryCounts == {1, 2}

\* the responses to the 2 * n requests of n queries (HIGH then CRITICAL for
\* each query, queries in watchlist order) holding at most MaxFetched entries
FetchInputs ==
    UNION { { [r \in 1..(2 * n) |-> EntriesOf(t, r)] :
                t \in InRequestOrder([req : 1..(2 * n), cve : FetchEntries], MaxFetched) } :
            n \in FetchQueryCounts }

\* the two loops of _fetch_cves over the responses, in request order
RECURSIVE MergeResponses(_, _)
MergeResponses(d, responses) ==
    IF responses = <<>> THEN d
    ELSE MergeResponses(MergeEntries(d, Head(responses), FetchTagRules), Tail(responses))

\* _fetch_cves, given the responses to its requests
FetchCves(responses) == SortItems(MergeResponses(<<>>, responses))

\* _fetch_cves is about to be called with the n queries of a readable
\* watchlist, the responses to its 2 * n requests being fnIn
FetchInit ==
    /\ files = NoFiles
    /\ Quiet
    /\ fnIn \in FetchInputs
    /\ fnOut = <<>>
    /\ queries = Len(fnIn) \div 2
    /\ wlFile = [ok |-> TRUE, nq |-> Len(fnIn) \div 2, tag_rules |-> FetchTagRules]

\* one call of _fetch_cves: it reads the watchlist for its tag_rules (line
\* 148), makes the 2 * n requests, each of which returns (line 157), and
\* returns the sorted items
FetchApply ==
    /\ fnOut = <<>>
    /\ wlFile.ok
    /\ wlReads' = wlReads + 1
    /\ nReq' = nReq + Len(fnIn)
    /\ nReqOk' = nReqOk + Len(fnIn)
    /\ items' = FetchCves(fnIn)
    /\ fetched' = TRUE
    /\ fnOut' = <<FetchCves(fnIn)>>
    /\ UNCHANGED <<envVars, pc, queries, reqVars, dict, notifyVars,
                   saveVars, outVars, histVars, loadCount, deliveries, fnIn>>

FetchNext == FetchApply

SpecFetch == FetchInit /\ [][FetchNext]_vars

(* -------------------- _tag_item applied on its own --------------------- *)
\* Texts are sequences of characters.
Chars == {"a", "B"}

\* str.lower, for one character and for a text
LowerChar(c) == CASE c = "A" -> "a" [] c = "B" -> "b" [] OTHER -> c
Lower(text) == [i \in 1..Len(text) |-> LowerChar(text[i])]

\* " ".join(parts)
RECURSIVE Join(_)
Join(parts) ==
    IF parts = <<>> THEN <<>>
    ELSE IF Len(parts) = 1 THEN parts[1]
    ELSE parts[1] \o <<" ">> \o Join(Tail(parts))

\* needle in hay, for strings
Contains(hay, needle) ==
    \E i \in 0..(Len(hay) - Len(needle)) : SubSeq(hay, i + 1, i + Len(needle)) = needle

\* keyword.lower() in corpus
KeywordIn_cased(keyword, corpus) == Contains(corpus, keyword)
KeywordIn(keyword, corpus) == Contains(corpus, Lower(keyword))

\* any(keyword.lower() in corpus for keyword in keywords or [])
RECURSIVE AnyKeyword(_, _)
AnyKeyword(keywords, corpus) ==
    IF keywords = <<>> THEN FALSE
    ELSE KeywordIn(Head(keywords), corpus) \/ AnyKeyword(Tail(keywords), corpus)

\* the loop over tag_rules.items(), a dict kept as the sequence of its
\* (tag, keywords) pairs in insertion order
RECURSIVE TagLoop(_, _)
TagLoop(rules, corpus) ==
    IF rules = <<>> THEN <<>>
    ELSE IF AnyKeyword(Head(rules).keywords, corpus)
         THEN <<Head(rules).tag>> \o TagLoop(Tail(rules), corpus)
         ELSE TagLoop(Tail(rules), corpus)

\* _tag_item
TagItem(summary, references, tag_rules) ==
    TagLoop(tag_rules, Lower(Join(<<summary>> \o references)))

\* keyword lists of a rule; None and the empty list are both <<>>
Keywords == {<<"A">>, <<"b">>, <<"a", " ", "b">>}
KeywordLists == SeqsUpTo(Keywords, 2)
Tags == {"rce", "auth"}
TagRules ==
    {<<>>}
    \cup { <<[tag |-> t, keywords |-> k]>> : t \in Tags, k \in KeywordLists }
    \cup { rules \in { <<[tag |-> t, keywords |-> k], [tag |-> u, keywords |-> l]>> :
                          t \in Tags, u \in Tags, k \in KeywordLists, l \in KeywordLists } :
             rules[1].tag # rules[2].tag }

TagInputs ==
    [summary    : SeqsUpTo(Chars, MaxSummary),
     references : {<<>>, << <<"b">> >>, << <<"A">> >>},
     tag_rules  : TagRules]

TagInit ==
    /\ files = NoFiles
    /\ Idle
    /\ fnIn \in TagInputs
    /\ fnOut = <<>>

TagApply ==
    /\ fnOut = <<>>
    /\ fnOut' = <<TagItem(fnIn.summary, fnIn.references, fnIn.tag_rules)>>
    /\ UNCHANGED <<envVars, pc, wlReads, queries, reqVars, fetchVars, notifyVars,
                   saveVars, outVars, histVars, countVars, fnIn>>

TagNext == TagApply

SpecTag == TagInit /\ [][TagNext]_vars

(* ------------------ _extract_cvss applied on its own ------------------- *)
\* the metric groups in the order _extract_cvss tries them
CvssKeys == <<"cvssMetricV31", "cvssMetricV30", "cvssMetricV2">>

\* the JSON value null (None)
NULL == "null"

\* str(value)
Str(value) == IF value = NULL THEN "None" ELSE value

\* A value of cvssData is <<>> when the key is missing and <<v>> when it is
\* v, which may be NULL; for baseScore and baseSeverity, which are read by
\* get without a default, <<>> is also the value null. Scores are in tenths.
\* cvssData itself is a dict, missing (or the entry is null), or null.
\* The entries: a v3.1 one, a v2 one (whose cvssData has no baseSeverity),
\* one whose version is null, one without cvssData, one whose cvssData is null
MetricEntries ==
    { [data |-> "dict",    version |-> <<"3.1">>, baseScore |-> <<98>>, baseSeverity |-> <<"CRITICAL">>],
      [data |-> "dict",    version |-> <<"2.0">>, baseScore |-> <<75>>, baseSeverity |-> <<>>],
      [data |-> "dict",    version |-> <<NULL>>,  baseScore |-> <<70>>, baseSeverity |-> <<"HIGH">>],
      [data |-> "missing", version |-> <<>>,      baseScore |-> <<>>,   baseSeverity |-> <<>>],
      [data |-> "null",    version |-> <<>>,      baseScore |-> <<>>,   baseSeverity |-> <<>>] }

\* the entries after the first of a group, which _extract_cvss never reads
LaterEntries == {e \in MetricEntries : e.data = "dict" /\ e.version # <<NULL>>}

\* a metric group: the key is absent (or null), or holds a list of at most
\* MaxMetricEntries entries
MetricGroups ==
    {[present |-> FALSE, entries |-> <<>>], [present |-> TRUE, entries |-> <<>>]}
    \cup {[present |-> TRUE, entries |-> <<e>> \o later] :
            e \in MetricEntries, later \in SeqsUpTo(LaterEntries, MaxMetricEntries - 1)}

MetricKeys == {"cvssMetricV31", "cvssMetricV30", "cvssMetricV2"}

\* the cve given to _extract_cvss: its "metrics" is a dict of groups (one
\* with no key when the cve has no "metrics"), or null
MetricsInputs ==
    {[null |-> FALSE, groups |-> g] : g \in [MetricKeys -> MetricGroups]}
    \cup {[null |-> TRUE, groups |-> [k \in MetricKeys |-> [present |-> FALSE, entries |-> <<>>]]]}

\* cvss_data.get raises AttributeError when cvssData is null (line 85)
CvssOfRaises(entry) == entry.data = "null"

\* CvssInfo from entries[0], lines 84-88
CvssOf(entry) ==
    [version    |-> IF entry.data = "dict" /\ entry.version # <<>>
                    THEN Str(entry.version[1]) ELSE "",
     base_score |-> IF entry.data = "dict" THEN entry.baseScore ELSE <<>>,
     severity   |-> IF entry.data = "dict" THEN entry.baseSeverity ELSE <<>>]

\* the entry the for loop of _extract_cvss, from the i-th key on, returns
\* from: entries[0] of the first group that holds one, <<>> when none does
RECURSIVE CvssEntry(_, _)
CvssEntry(groups, i) ==
    IF i > Len(CvssKeys) THEN <<>>
    ELSE LET group   == groups[CvssKeys[i]]
             entries == IF group.present THEN group.entries ELSE <<>>
         IN  IF entries = <<>>
             THEN CvssEntry(groups, i + 1)
             ELSE <<entries[1]>>

\* the for loop of _extract_cvss from the i-th key on
CvssFrom(groups, i) ==
    IF CvssEntry(groups, i) = <<>>
    THEN [version |-> "N/A", base_score |-> <<>>, severity |-> <<>>]
    ELSE CvssOf(CvssEntry(groups, i)[1])

\* _extract_cvss raises AttributeError: metrics.get on null (line 81), or
\* cvss_data.get on null (line 85)
ExtractCvssRaises(cve) ==
    \/ cve.null
    \/ /\ CvssEntry(cve.groups, 1) # <<>>
       /\ CvssOfRaises(CvssEntry(cve.groups, 1)[1])

\* what _extract_cvss returns
ExtractCvss(cve) == CvssFrom(cve.groups, 1)

CvssInit ==
    /\ files = NoFiles
    /\ Idle
    /\ fnIn \in MetricsInputs
    /\ fnOut = <<>>

\* one call of _extract_cvss: it returns a CvssInfo, or ends by an exception
\* and returns nothing
CvssApply ==
    /\ fnOut = <<>> /\ raised = ""
    /\ IF ExtractCvssRaises(fnIn)
       THEN raised' = "AttributeError" /\ UNCHANGED fnOut
       ELSE fnOut' = <<ExtractCvss(fnIn)>> /\ UNCHANGED raised
    /\ UNCHANGED <<envVars, pc, wlReads, queries, reqVars, fetchVars, notifyVars,
                   saveVars, stdout, stderr, result, fetchError, histVars, countVars, fnIn>>

CvssNext == CvssApply

SpecCvss == CvssInit /\ [][CvssNext]_vars

(* ------------------------------ claims -------------------------------- *)
\* the ids of the deliveries of this run, in order, and of those that succeeded
AttemptIds == [i \in 1..Len(attempts) |-> attempts[i].id]
DeliveredIds == {attempts[i].id : i \in {j \in 1..Len(attempts) : attempts[j].ok}}
ItemIds(its) == [i \in 1..Len(its) |-> its[i].cve_id]

\* the last call of requests.get got a response that is returned to the caller
GotSuccess ==
    /\ calls > 0
    /\ ~lastOutcome.exc
    /\ lastOutcome.status \notin TransientStatuses
    /\ ~RaisesForStatus(lastOutcome.status)

\* the last call of requests.get got an error status that is not retried
GotNonTransientError ==
    /\ calls > 0
    /\ ~lastOutcome.exc
    /\ lastOutcome.status \notin TransientStatuses
    /\ RaisesForStatus(lastOutcome.status)

\* this run fetched what the previous run fetched, and has its store
SameUpstream == fetched /\ prev.fetched /\ items = prev.items /\ prev.path = postedPath

\* C1: at every point of every run the ids in the posted store include the
\* ids the store held when the run started; no run removes an id.
C1_MonotonicStore == StoreIds(store0) \subseteq StoreIds(store)

C1_Witness ==
    /\ pc = "exit" /\ saveCount = 1
    /\ StoreIds(store0) # {}
    /\ StoreIds(store) # StoreIds(store0)

\* C2: a run that fetches what the previous run fetched, where the previous
\* run left none of its new items undelivered, makes no delivery attempt,
\* does not save and leaves the store as it found it.
C2_Idempotent ==
    (SameUpstream /\ prev.pending = <<>>) =>
        /\ attempts = <<>>
        /\ saveCount = 0
        /\ store = store0
        /\ pc \in {"filter", "exit"}

\* C3: a run with a new item saves exactly once, after its last delivery
\* attempt (nothing follows the save), and writes the loaded ids together
\* with the ids delivered in this run; the id of a failed delivery and of
\* every item after it is not written.
C3_Persist ==
    /\ saveCount <= 1
    /\ saveCount = 1 => pc = "exit"
    /\ (pc = "exit" /\ to_post # <<>>) =>
          /\ saveCount = 1
          /\ posted_ids = StoreIds(store0)
          /\ savedIds = posted_ids \cup DeliveredIds
          /\ StoreIds(store) = savedIds
          /\ failAt # 0 =>
                \A j \in failAt..Len(to_post) : to_post[j].cve_id \notin savedIds

\* C4: a failed delivery is the last delivery attempt of its run; after it
\* main goes to the save and returns 0, it does not end by an exception.
C4_FailFast ==
    /\ \A i \in 1..Len(attempts) : ~attempts[i].ok => i = Len(attempts)
    /\ failAt # 0 =>
          /\ Len(attempts) = failAt
          /\ ~attempts[failAt].ok
          /\ pc \in {"persist", "exit"}
          /\ result # "raised" /\ raised = ""
          /\ pc = "exit" => (saveCount = 1 /\ result = "return 0")

\* C5, its first half: when delivery failed on new item k, the run ends
\* with items 1..k-1 in the store and none of items k..n.
C5_StoreAfterFailure ==
    (pc = "exit" /\ failAt # 0) =>
        /\ \A j \in 1..(failAt - 1) : to_post[j].cve_id \in StoreIds(store)
        /\ \A j \in failAt..Len(to_post) : to_post[j].cve_id \notin StoreIds(store)

\* C5: after a run in which delivery failed on item k, a run that fetches
\* the same upstream data has exactly items k..n, in the same order, as its
\* new items, and attempts delivery of them in that order up to the first
\* delivery that fails: of all of them when none fails.
C5_RetryNextRun ==
    /\ C5_StoreAfterFailure
    /\ (SameUpstream /\ prev.pending # <<>> /\ pc \in {"notify", "persist", "exit"}) =>
          /\ to_post = prev.pending
          /\ Len(attempts) <= Len(to_post)
          /\ AttemptIds = SubSeq(ItemIds(to_post), 1, Len(attempts))
          /\ pc \in {"persist", "exit"} =>
                Len(attempts) = IF failAt = 0 THEN Len(to_post) ELSE failAt

\* C6: in a run where a request of the fetcher failed, main catches the
\* error, writes its message to the error stream and returns 1, having made
\* no delivery attempt and no write of the posted store.
C6_FetchFailureHandled ==
    fetchError # "" =>
        /\ pc = "exit"
        /\ result = "return 1" /\ raised = ""
        /\ stderr = <<"NVD request failed">>
        /\ attempts = <<>>
        /\ saveCount = 0 /\ store = store0

\* C7: a request makes at most 3 calls of requests.get, makes none after a
\* successful response (no call is pending then), and returns only when a
\* call got one.
C7_RetryBound ==
    /\ calls <= 3
    /\ GotSuccess => pc \in {"merge", "exit"}
    /\ pc = "merge" => GotSuccess

C7_Witness == pc = "merge" /\ calls = 3 /\ GotSuccess

\* C8: the sleep after attempt i lasts 2^i seconds; a request that returns
\* after k failed attempts has slept k times, and a request that fails has
\* not slept after its last attempt (so never after the third).
C8_Backoff ==
    /\ \A i \in 1..Len(sleeps) : sleeps[i] = 2 ^ i
    /\ Len(sleeps) <= 2
    /\ pc = "request" => Len(sleeps) = calls
    /\ pc = "merge" => Len(sleeps) = calls - 1
    /\ fetchError # "" => Len(sleeps) = calls - 1

C8_Witness == pc = "merge" /\ calls = 3 /\ sleeps = <<2, 4>>

C8_WitnessExhausted == fetchError # "" /\ calls = 3 /\ sleeps = <<2, 4>>

\* C9: a non-transient error status ends the request at once, with no sleep
\* and no further attempt, by an error of the type that a request which ran
\* out of attempts ends by, whatever its last outcome was.
C9_NonTransientFails ==
    GotNonTransientError =>
        /\ pc = "exit" /\ fetchError # ""
        /\ Len(sleeps) = calls - 1
        /\ \A o \in Outcomes :
              (o.exc \/ o.status \in TransientStatuses) => fetchError = ExhaustedKind(o)

\* C10: when _load_posted has a store to give (it does not raise) and every
\* fetched id is in that store, the run makes no delivery attempt, does not
\* write the store, prints the no-op message and returns 0.
C10_NothingToDo ==
    (/\ fetched
     /\ ~LoadRaises(store0)
     /\ \A i \in 1..Len(items) : items[i].cve_id \in LoadPosted(store0)) =>
        /\ attempts = <<>>
        /\ saveCount = 0 /\ store = store0
        /\ pc \in {"filter", "exit"}
        /\ pc = "exit" =>
              /\ loadCount = 1 /\ posted_ids = LoadPosted(store0)
              /\ stdout = <<[msg |-> "No new CVEs to post.", n |-> 0]>>
              /\ stderr = <<>>
              /\ result = "return 0" /\ ExitCode(result) = 0

C10_Witness ==
    /\ fetched /\ pc = "exit"
    /\ items # <<>>
    /\ \A i \in 1..Len(items) : items[i].cve_id \in StoreIds(store0)
    /\ stdout = <<[msg |-> "No new CVEs to post.", n |-> 0]>>

\* C11: a run without the webhook URL, or whose watchlist cannot be read or
\* has no query, ends with exit status 1 having issued no API request, not
\* loaded the store and attempted no delivery; without the webhook URL the
\* watchlist is not even read.
C11_ConfigFailFast ==
    (pc = "exit" /\ (~webhook \/ ~wlFile.ok \/ wlFile.nq = 0)) =>
        /\ ExitCode(result) = 1
        /\ nReq = 0 /\ calls = 0
        /\ loadCount = 0
        /\ attempts = <<>>
        /\ saveCount = 0 /\ store = store0
        /\ stdout = <<>>
        /\ ~webhook => wlReads = 0 /\ stderr = <<"SLACK_WEBHOOK_URL is required.">>
        /\ (webhook /\ ~wlFile.ok) => wlReads = 1 /\ raised = "ConfigError"
        /\ (webhook /\ wlFile.ok) =>
               wlReads = 1 /\ stderr = <<"watchlist.yml has no queries.">>

C11_Witness ==
    /\ pc = "exit" /\ ~webhook /\ wlFile.ok /\ wlFile.nq > 0
    /\ result = "return 1" /\ wlReads = 0

C11_WitnessNoQueries ==
    pc = "exit" /\ webhook /\ wlFile.ok /\ wlFile.nq = 0 /\ result = "return 1"

C11_WitnessUnreadable ==
    pc = "exit" /\ webhook /\ ~wlFile.ok /\ raised = "ConfigError"

\* C13: within a run the events come in the order configuration, API
\* requests, store load, delivery attempts, store save, report: a request is
\* only issued after the configuration was read; the store is only loaded once
\* each of the 2 * queries requests has returned; a delivery is only attempted
\* after that load; the store is saved only when the delivery loop is over,
\* and the report follows a save that returned.  Each count only grows within a run, so
\* an event of an earlier stage cannot follow one of a later stage.
C13_RunOrder ==
    /\ nReqOk <= nReq /\ nReq <= nReqOk + 1 /\ nReq <= 2 * queries
    /\ loadCount <= 1 /\ saveCount <= 1
    /\ nReq > 0 => wlReads >= 1 /\ webhook /\ queries = wlFile.nq
    /\ pc \in {"request", "merge"} =>
           loadCount = 0 /\ attempts = <<>> /\ saveCount = 0 /\ stdout = <<>>
    /\ loadCount = 1 =>
           fetched /\ nReq = 2 * queries /\ nReqOk = 2 * queries
                   /\ pc \in {"notify", "persist", "exit"}
    /\ attempts # <<>> => loadCount = 1
    /\ pc = "notify" => saveCount = 0 /\ stdout = <<>> /\ idx = Len(attempts) + 1
    /\ saveCount = 1 => attempts # <<>> /\ pc = "exit"
                        /\ Len(stdout) = (IF raised = "" THEN 1 ELSE 0)
    /\ stdout # <<>> => pc = "exit" /\ loadCount = 1
                        /\ (saveCount = 1 \/ attempts = <<>>)

C13_Witness ==
    /\ pc = "exit" /\ saveCount = 1
    /\ queries = 2 /\ nReqOk = 4
    /\ Len(attempts) >= 2

\* positions of the fetched sequence whose id the store did not hold when the
\* run started, and the k-th of them
NewPositions == {i \in 1..Len(items) : items[i].cve_id \notin StoreIds(store0)}
KthNew(k) ==
    CHOOSE i \in NewPositions : Cardinality({j \in NewPositions : j < i}) = k - 1

\* C14: once the store is loaded, before filtering, the delivery attempts of
\* a run are, in order, the first fetched items whose id is not in the loaded
\* store: the k-th attempt is the k-th such item, no attempted id is in the
\* loaded store, no id is attempted twice and only the last attempt can have
\* failed.  When the run ends with no failed delivery every such item was
\* attempted, each delivered once, and its id is in the store.
C14_DeliveryOrder ==
    (loadCount = 1 /\ ~LoadRaises(store0)) =>
        /\ posted_ids = StoreIds(store0)
        /\ Len(attempts) <= Cardinality(NewPositions)
        /\ \A k \in 1..Len(attempts) :
              /\ attempts[k].id = items[KthNew(k)].cve_id
              /\ attempts[k].id \notin posted_ids
              /\ k < Len(attempts) => attempts[k].ok
              /\ \A j \in 1..(k - 1) : attempts[j].id # attempts[k].id
        /\ (pc = "exit" /\ failAt = 0) =>
              /\ Len(attempts) = Cardinality(NewPositions)
              /\ \A k \in 1..Len(attempts) :
                    attempts[k].ok /\ attempts[k].id \in StoreIds(store)
              /\ \A i \in NewPositions :
                    Cardinality({k \in 1..Len(attempts) :
                                    attempts[k].id = items[i].cve_id}) = 1

\* C15 as stated: the watchlist file is read once in a run, by main; no later
\* stage reads it again.
C15_ReadOnce ==
    /\ wlReads <= 1
    /\ pc \in {"request", "merge", "filter", "notify", "persist"} => wlReads = 1

\* C16 as stated: when the store file is absent or its content cannot be
\* parsed, _load_posted gives the empty set, every fetched item is new, and
\* the run goes on: nothing is raised.
C16_LoadNeverFails ==
    (loadCount = 1 /\ (~store0.exists \/ ~store0.utf8 \/ ~store0.parsable)) =>
        /\ raised = "" /\ result # "raised"
        /\ posted_ids = {}
        /\ to_post = items
        /\ pc = "exit" => ExitCode(result) = 0

\* the deliveries of this run that succeeded
Succeeded == {k \in 1..Len(attempts) : attempts[k].ok}

\* C17: a run that saves the store prints, once, the number of deliveries
\* that succeeded in this run (0 when the first one failed) and returns 0,
\* also when a delivery failed.
C17_DoneReport ==
    /\ pc = "persist" => result = "running" /\ stdout = <<>>
    /\ saveCount = 1 =>
          /\ stdout = <<[msg |-> "Posted n CVEs.", n |-> Cardinality(Succeeded)]>>
          /\ failAt = 1 => stdout[1].n = 0
          /\ failAt # 0 => stdout[1].n = failAt - 1
          /\ result = "return 0" /\ ExitCode(result) = 0
          /\ raised = ""

\* C20: over successive runs that have the same store no id is delivered
\* with success more than once, and when a run has ended every id delivered
\* with success by these runs is in the store.
C20_AtMostOnce ==
    /\ DeliveredIds \cap deliveries = {}
    /\ \A j, k \in 1..Len(attempts) :
          (attempts[j].ok /\ attempts[k].ok /\ attempts[j].id = attempts[k].id) => j = k
    /\ pc \in {"idle", "exit"} =>
          (deliveries \cup DeliveredIds) \subseteq StoreIds(store)

\* the normalized cves of all responses, in the order _fetch_cves meets them
RECURSIVE Flat(_)
Flat(responses) ==
    IF responses = <<>> THEN <<>>
    ELSE LET r == Head(responses)
         IN  [i \in 1..Len(r) |-> Normalize(r[i], FetchTagRules)] \o Flat(Tail(responses))

\* C12: in the sequence _fetch_cves returns every id met in a response
\* occurs exactly once and no other id occurs; the item of an id is the one
\* of its last occurrence in request order; the sequence is in descending
\* order of the published strings, so items without one come last.
C12_FetchShape ==
    fnOut # <<>> =>
        LET out == fnOut[1]
            met == Flat(fnIn)
        IN  /\ \A p \in 1..Len(met) :
                  Cardinality({i \in 1..Len(out) : out[i].cve_id = met[p].cve_id}) = 1
            /\ \A i \in 1..Len(out) :
                  \E p \in 1..Len(met) :
                      /\ out[i] = met[p]
                      /\ \A q \in (p + 1)..Len(met) : met[q].cve_id # out[i].cve_id
            /\ \A i \in 1..Len(out) : \A j \in (i + 1)..Len(out) :
                  /\ ~LexLess(out[i].published, out[j].published)
                  /\ out[i].published = <<>> => out[j].published = <<>>

\* an id met twice with different content, the later one kept, and an item
\* without published string at the end
C12_Witness ==
    /\ fnOut # <<>>
    /\ Len(fnIn) = 4 /\ Len(fnIn[1]) = 1 /\ Len(fnIn[4]) = 1
    /\ Normalize(fnIn[1][1], FetchTagRules).cve_id = Normalize(fnIn[4][1], FetchTagRules).cve_id
    /\ Normalize(fnIn[1][1], FetchTagRules) # Normalize(fnIn[4][1], FetchTagRules)
    /\ Len(fnOut[1]) = 2
    /\ fnOut[1][1] = Normalize(fnIn[4][1], FetchTagRules)
    /\ fnOut[1][2].published = <<>>

\* the corpus as the claim describes it: summary and references with one
\* space between them, case kept
RECURSIVE SpaceJoined(_)
SpaceJoined(parts) ==
    IF Len(parts) = 1 THEN parts[1]
    ELSE SpaceJoined(SubSeq(parts, 1, Len(parts) - 1)) \o <<" ">> \o parts[Len(parts)]

\* kw is, case aside, a run of consecutive characters of text
OccursNoCase(kw, text) ==
    \E a \in 0..Len(text) :
        /\ a + Len(kw) <= Len(text)
        /\ \A k \in 1..Len(kw) : LowerChar(text[a + k]) = LowerChar(kw[k])

\* C18: the tags _tag_item returns are those of tag_rules one of whose
\* keywords occurs, case aside, in the summary and references joined by
\* spaces; no tag is returned twice, and the tags come in the order of
\* tag_rules.
C18_TagResult ==
    fnOut # <<>> =>
        LET out    == fnOut[1]
            rules  == fnIn.tag_rules
            corpus == SpaceJoined(<<fnIn.summary>> \o fnIn.references)
            Hit(r) == \E k \in 1..Len(rules[r].keywords) :
                          OccursNoCase(rules[r].keywords[k], corpus)
        IN  /\ \A r \in 1..Len(rules) :
                  Hit(r) <=> \E i \in 1..Len(out) : out[i] = rules[r].tag
            /\ \A i \in 1..Len(out) : \E r \in 1..Len(rules) : out[i] = rules[r].tag
            /\ \A i \in 1..Len(out) : \A j \in (i + 1)..Len(out) :
                  /\ out[i] # out[j]
                  /\ \E r \in 1..Len(rules) : \E q \in (r + 1)..Len(rules) :
                        out[i] = rules[r].tag /\ out[j] = rules[q].tag

\* both rules hit: one by a keyword in the other case, one by a keyword that
\* spans the space between summary and reference
C18_Witness ==
    /\ fnOut = << <<"auth", "rce">> >>
    /\ fnIn.summary = <<"a">>
    /\ fnIn.references = << <<"b">> >>
    /\ fnIn.tag_rules = <<[tag |-> "auth", keywords |-> << <<"A">> >>],
                          [tag |-> "rce",  keywords |-> << <<"a", " ", "b">> >>]>>

\* a rule without a matching keyword is left out
C18_WitnessMiss ==
    /\ fnOut = << <<"rce">> >>
    /\ Len(fnIn.tag_rules) = 2 /\ fnIn.tag_rules[2].tag = "rce"

\* the metric group of a key holds at least one entry
NonEmptyGroup(key) == fnIn.groups[key].present /\ fnIn.groups[key].entries # <<>>

\* C19: for every cve, _extract_cvss applied to it gives a result; the
\* score, severity and version of the result are those of the first entry of
\* the v3.1 group when that group holds an entry, else of the v3.0 group,
\* else of the v2 group; with only a v2 group the version is the version
\* field of its first entry and not "N/A"; the version is "N/A", with no
\* score and no severity, exactly when no group holds an entry.
C19_CvssSelection ==
    (fnOut # <<>> \/ raised # "") =>
        /\ raised = "" /\ fnOut # <<>>
        /\ LET out     == fnOut[1]
               First(key) == fnIn.groups[key].entries[1]
               From(key) ==
                   /\ out.base_score =
                         (IF First(key).data = "dict" THEN First(key).baseScore ELSE <<>>)
                   /\ out.severity =
                         (IF First(key).data = "dict" THEN First(key).baseSeverity ELSE <<>>)
                   /\ out.version # "N/A"
                   /\ (First(key).data = "dict" /\ First(key).version \notin {<<>>, <<NULL>>}) =>
                          out.version = First(key).version[1]
           IN  /\ NonEmptyGroup("cvssMetricV31") => From("cvssMetricV31")
               /\ (~NonEmptyGroup("cvssMetricV31") /\ NonEmptyGroup("cvssMetricV30")) =>
                      From("cvssMetricV30")
               /\ (/\ ~NonEmptyGroup("cvssMetricV31")
                    /\ ~NonEmptyGroup("cvssMetricV30")
                    /\ NonEmptyGroup("cvssMetricV2")) => From("cvssMetricV2")
               /\ out.version = "N/A" <=>
                      \A key \in MetricKeys : ~NonEmptyGroup(key)
               /\ out.version = "N/A" => out.base_score = <<>> /\ out.severity = <<>>

====
